---- MODULE Spec2Model ----
(***************************************************************************)
(* A model of productcode.py: product code strings (EAN-13, ISBN-13,       *)
(* ISMN-13, ISBN-10, ISMN, UPC-5) are parsed into digit slots, their       *)
(* checksum is verified or a wildcard is solved, the string is checked     *)
(* again, and the bar pattern is assembled.  makeProductCode tries the     *)
(* formats in a fixed order.                                               *)
(*                                                                         *)
(* A Python string is a sequence of one-character strings.  A raised       *)
(* exception is the field exc of the record a function returns; appended   *)
(* lists the messages the call appended to ProductCodeError.msgs.          *)
(***************************************************************************)
EXTENDS Integers, Sequences, FiniteSets, TLC

VARIABLES
    arg,      \* the string passed to the last call
    op,       \* the function called last ("none" before any call)
    flags,    \* <<forceISBN13, forceISMN13>> of the last makeProductCode call
    ret,      \* the outcome of the last call: an object or a raised exception
    conv,     \* the outcome of ret.as13(), once it has been called
    msgs,     \* ProductCodeError.msgs, the list shared by the whole class
    ncalls    \* the number of calls made so far

vars == <<arg, op, flags, ret, conv, msgs, ncalls>>

----------------------------------------------------------------------------
(* Values of the character maps *)

\* the value of a wildcard slot ({"*":None})
None == -1

\* the value a separator maps to ({"-":"-"}, {" ":" "}): a str, no digit slot
Separator == -2

Digits == <<"0", "1", "2", "3", "4", "5", "6", "7", "8", "9">>

DigitChars == {Digits[i] : i \in 1..Len(Digits)}

\* "%s" % n for n in 0..9
DigitStr(n) == Digits[n + 1]

\* makeCharMap: '0'..'9' always present, then the given dictionaries on top
makeCharMap(dict) ==
    dict @@ [c \in DigitChars |-> CHOOSE i \in 0..9 : Digits[i + 1] = c]

NoDict == [c \in {} |-> None]

\* type(d)==int or d==None
IsSlot(d) == d >= None

\* str.upper() on the characters the inputs are made of
UpperChar(c) ==
    CASE c = "x" -> "X"
      [] c = "m" -> "M"
      [] c = "a" -> "A"
      [] OTHER -> c

Upper(s) == [k \in 1..Len(s) |-> UpperChar(s[k])]

----------------------------------------------------------------------------
(* parse *)

\* parse looks up s[0], each character of s[1:-1], and s[-1]: a string of one
\* character is looked up twice, as s[0] and as s[-1]
NLookups(s) == IF Len(s) = 1 THEN 2 ELSE Len(s)

LookupChar(s, k) == IF Len(s) = 1 THEN s[1] ELSE s[k]

\* the map of the k-th lookup
LookupMap(s, k, firstCharMap, lastCharMap, otherCharMap) ==
    IF k = 1 THEN firstCharMap
    ELSE IF k = NLookups(s) THEN lastCharMap
    ELSE otherCharMap

\* the lookups that raise KeyError
KeyErrors(s, firstCharMap, lastCharMap, otherCharMap) ==
    {k \in 1..NLookups(s) :
        LookupChar(s, k) \notin
            DOMAIN LookupMap(s, k, firstCharMap, lastCharMap, otherCharMap)}

Looked(s, firstCharMap, lastCharMap, otherCharMap) ==
    [k \in 1..NLookups(s) |->
        LookupMap(s, k, firstCharMap, lastCharMap, otherCharMap)[LookupChar(s, k)]]

\* the first lookup to fail ends parse
FirstOf(bad) == CHOOSE x \in bad : \A y \in bad : x <= y

ParseLookups(s, bad, firstCharMap, lastCharMap, otherCharMap) ==
    IF bad # {}
    THEN [exc |-> "KeyError", key |-> LookupChar(s, FirstOf(bad)), digits |-> <<>>]
    ELSE [exc |-> "none", key |-> "",
          digits |-> SelectSeq(Looked(s, firstCharMap, lastCharMap, otherCharMap),
                               IsSlot)]

parse(s, firstCharMap, lastCharMap, otherCharMap) ==
    IF Len(s) = 0
    THEN [exc |-> "IndexError", key |-> "", digits |-> <<>>]
    ELSE ParseLookups(s, KeyErrors(s, firstCharMap, lastCharMap, otherCharMap),
                      firstCharMap, lastCharMap, otherCharMap)

----------------------------------------------------------------------------
(* Outcomes: a constructed object, or the exception that was raised *)

\* one line of a message: "<type>: <text>", with the character it cites
Line(type, text, key) == [type |-> type, text |-> text, key |-> key]

\* raise ProductCodeError(msg): the constructor appends msg, if there is one, to
\* the class's list
Raise(msg) ==
    [exc |-> "ProductCodeError", msg |-> msg, type |-> "", s |-> <<>>,
     digits |-> <<>>, checkDigit |-> None, bits |-> <<>>,
     appended |-> IF msg # <<>> THEN <<msg>> ELSE <<>>]

\* an exception other than ProductCodeError (IndexError, AttributeError)
RaiseOther(kind) ==
    [exc |-> kind, msg |-> <<>>, type |-> "", s |-> <<>>,
     digits |-> <<>>, checkDigit |-> None, bits |-> <<>>, appended |-> <<>>]

Object(type, s, digits) ==
    [exc |-> "none", msg |-> <<>>, type |-> type, s |-> s,
     digits |-> digits, checkDigit |-> digits[Len(digits)], bits |-> <<>>,
     appended |-> <<>>]

\* the same outcome, with the messages of earlier failed calls put before its own
After(earlier, r) == [r EXCEPT !.appended = earlier \o @]

----------------------------------------------------------------------------
(* ProductCode: remainder, resolveChecksum, realityCheck, __init__ *)

RECURSIVE WeightedSum(_, _, _)
WeightedSum(digits, weights, p) ==
    IF p = 0 THEN 0
    ELSE WeightedSum(digits, weights, p - 1) + digits[p] * weights[p]

\* a variant that sums over the slots both lists have instead of raising
remainderUnchecked(type, digits, weights, magic) ==
    [exc |-> "none", msg |-> <<>>,
     value |-> WeightedSum(digits, weights,
                           IF Len(digits) < Len(weights) THEN Len(digits)
                           ELSE Len(weights)) % magic]

remainder(type, digits, weights, magic) ==
    IF Len(digits) # Len(weights)
    THEN [exc |-> "ProductCodeError",
          msg |-> <<Line(type, "wrong number of digits", "")>>, value |-> 0]
    ELSE [exc |-> "none", msg |-> <<>>,
          value |-> WeightedSum(digits, weights, Len(digits)) % magic]

\* the last candidate of range(10)
LastCandidate == 9

\* for i in range(10): self.digits[iWild]=i; if self.remainder()==0: return i
\* d is digits with i stored at iWild and r its remainder.  With the range used
\* up the method returns None, and digits keeps the last candidate.
RECURSIVE SolveWildcard(_, _, _, _, _, _)
SolveCandidate(type, digits, weights, magic, iWild, i, d, r) ==
    IF r.exc # "none"
    THEN [exc |-> r.exc, msg |-> r.msg, digits |-> d, i |-> None]
    ELSE IF r.value = 0
    THEN [exc |-> "none", msg |-> <<>>, digits |-> d, i |-> i]
    ELSE IF i = LastCandidate
    THEN [exc |-> "none", msg |-> <<>>, digits |-> d, i |-> None]
    ELSE SolveWildcard(type, digits, weights, magic, iWild, i + 1)

SolveWildcard(type, digits, weights, magic, iWild, i) ==
    SolveCandidate(type, digits, weights, magic, iWild, i,
                   [digits EXCEPT ![iWild] = i],
                   remainder(type, [digits EXCEPT ![iWild] = i], weights, magic))

\* self.digits.count(None)
CountNone(digits) == Cardinality({p \in 1..Len(digits) : digits[p] = None})

\* self.digits.index(None)
IndexNone(digits) == CHOOSE p \in 1..Len(digits) : digits[p] = None

\* nWild == 0: r is self.remainder()
CheckComplete(type, digits, r) ==
    IF r.exc # "none"
    THEN [exc |-> r.exc, msg |-> r.msg, digits |-> digits, i |-> None]
    ELSE IF r.value = 0
    THEN [exc |-> "none", msg |-> <<>>, digits |-> digits, i |-> None]
    ELSE [exc |-> "ProductCodeError",
          msg |-> <<Line(type, "checksum error", "")>>,
          digits |-> digits, i |-> None]

\* a variant that compares the lengths before it counts the wildcards
resolveChecksumLengthFirst(type, digits, weights, magic) ==
    IF Len(digits) # Len(weights)
    THEN [exc |-> "ProductCodeError",
          msg |-> <<Line(type, "wrong number of digits", "")>>,
          digits |-> digits, i |-> None]
    ELSE IF CountNone(digits) = 0
    THEN CheckComplete(type, digits, remainder(type, digits, weights, magic))
    ELSE IF CountNone(digits) = 1
    THEN SolveWildcard(type, digits, weights, magic, IndexNone(digits), 0)
    ELSE [exc |-> "ProductCodeError",
          msg |-> <<Line(type, "too many wildcard digits.", "")>>,
          digits |-> digits, i |-> None]

resolveChecksum(type, digits, weights, magic) ==
    IF CountNone(digits) = 0
    THEN CheckComplete(type, digits, remainder(type, digits, weights, magic))
    ELSE IF CountNone(digits) = 1
    THEN SolveWildcard(type, digits, weights, magic, IndexNone(digits), 0)
    ELSE [exc |-> "ProductCodeError",
          msg |-> <<Line(type, "too many wildcard digits.", "")>>,
          digits |-> digits, i |-> None]

\* ProductCode.int2char, and ISBN10's override when isbn10; "" stands for the
\* raise of "Internal error"
int2char(isbn10, n) ==
    IF isbn10 /\ n = 10 THEN "X"
    ELSE IF n \in 0..9 THEN DigitStr(n)
    ELSE ""

\* re.sub("\*", c, s)
SubWildcard(s, c) == [k \in 1..Len(s) |-> IF s[k] = "*" THEN c ELSE s[k]]

\* re.search("--|  ", s)
RepeatedSeparator(s) ==
    \E k \in 1..(Len(s) - 1) : s[k] = s[k + 1] /\ s[k] \in {"-", " "}

\* the messages realityCheck collects, in its order
realityCheck(cfg, s, digits) ==
    (IF Len(cfg.weights) < Len(digits)
     THEN <<Line(cfg.type, "Too many digits", "")>>
     ELSE IF Len(cfg.weights) > Len(digits)
     THEN <<Line(cfg.type, "Not enough digits", "")>>
     ELSE <<>>)
    \o (IF s[1] \notin DOMAIN cfg.firstCharMap
        THEN <<Line(cfg.type, "Illegal first character", "")>> ELSE <<>>)
    \o (IF s[Len(s)] \notin DOMAIN cfg.lastCharMap
        THEN <<Line(cfg.type, "Illegal final character", "")>> ELSE <<>>)
    \o [j \in 1..Cardinality({k \in 2..(Len(s) - 1) : s[k] \notin DOMAIN cfg.otherCharMap})
          |-> Line(cfg.type, "Illegal character", "")]
    \o (IF RepeatedSeparator(s)
        THEN <<Line(cfg.type, "Repeated seperator", "")>> ELSE <<>>)

\* self.realityCheck(); self.checkDigit = self.digits[-1]
\* found is what realityCheck collected on self.s
InitChecked(cfg, selfs, digits, found) ==
    IF found # <<>> THEN Raise(found) ELSE Object(cfg.type, selfs, digits)

\* c = self.int2char(i); self.s = re.sub("\*",c,self.s)
InitSubstituted(cfg, s, digits, c) ==
    IF c = "" THEN Raise(<<Line(cfg.type, "Internal error", "")>>)
    ELSE InitChecked(cfg, SubWildcard(Upper(s), c), digits,
                     realityCheck(cfg, SubWildcard(Upper(s), c), digits))

\* i = self.resolveChecksum(); if i != None: ...
InitResolved(cfg, s, r) ==
    IF r.exc # "none" THEN Raise(r.msg)
    ELSE IF r.i # None
    THEN InitSubstituted(cfg, s, r.digits, int2char(cfg.isbn10, r.i))
    ELSE InitChecked(cfg, Upper(s), r.digits, realityCheck(cfg, Upper(s), r.digits))

\* try: self.digits = parse(...) except KeyError as m: raise ProductCodeError
InitParsed(cfg, s, p) ==
    IF p.exc = "IndexError" THEN RaiseOther("IndexError")
    ELSE IF p.exc = "KeyError"
    THEN Raise(<<Line(cfg.type, "invalid here", p.key)>>)
    ELSE InitResolved(cfg, s,
                      resolveChecksum(cfg.type, p.digits, cfg.weights, cfg.magic))

\* ProductCode.__init__; the object has no bits yet
ProductCodeInit(cfg, s) ==
    InitParsed(cfg, s,
               parse(s, cfg.firstCharMap, cfg.lastCharMap, cfg.otherCharMap))

----------------------------------------------------------------------------
(* The bit tables *)

\* EAN13BITS[d + 1] is the table's entry for digit d
EAN13BITS ==
    <<
       [A |-> <<"0", "0", "0", "1", "1", "0", "1">>,
        B |-> <<"0", "1", "0", "0", "1", "1", "1">>,
        C |-> <<"1", "1", "1", "0", "0", "1", "0">>],
       [A |-> <<"0", "0", "1", "1", "0", "0", "1">>,
        B |-> <<"0", "1", "1", "0", "0", "1", "1">>,
        C |-> <<"1", "1", "0", "0", "1", "1", "0">>],
       [A |-> <<"0", "0", "1", "0", "0", "1", "1">>,
        B |-> <<"0", "0", "1", "1", "0", "1", "1">>,
        C |-> <<"1", "1", "0", "1", "1", "0", "0">>],
       [A |-> <<"0", "1", "1", "1", "1", "0", "1">>,
        B |-> <<"0", "1", "0", "0", "0", "0", "1">>,
        C |-> <<"1", "0", "0", "0", "0", "1", "0">>],
       [A |-> <<"0", "1", "0", "0", "0", "1", "1">>,
        B |-> <<"0", "0", "1", "1", "1", "0", "1">>,
        C |-> <<"1", "0", "1", "1", "1", "0", "0">>],
       [A |-> <<"0", "1", "1", "0", "0", "0", "1">>,
        B |-> <<"0", "1", "1", "1", "0", "0", "1">>,
        C |-> <<"1", "0", "0", "1", "1", "1", "0">>],
       [A |-> <<"0", "1", "0", "1", "1", "1", "1">>,
        B |-> <<"0", "0", "0", "0", "1", "0", "1">>,
        C |-> <<"1", "0", "1", "0", "0", "0", "0">>],
       [A |-> <<"0", "1", "1", "1", "0", "1", "1">>,
        B |-> <<"0", "0", "1", "0", "0", "0", "1">>,
        C |-> <<"1", "0", "0", "0", "1", "0", "0">>],
       [A |-> <<"0", "1", "1", "0", "1", "1", "1">>,
        B |-> <<"0", "0", "0", "1", "0", "0", "1">>,
        C |-> <<"1", "0", "0", "1", "0", "0", "0">>],
       [A |-> <<"0", "0", "0", "1", "0", "1", "1">>,
        B |-> <<"0", "0", "1", "0", "1", "1", "1">>,
        C |-> <<"1", "1", "1", "0", "1", "0", "0">>]
    >>

\* UPCEBITS[d + 1] is the table's entry for digit d
UPCEBITS ==
    <<
       [O |-> <<"0", "0", "0", "1", "1", "0", "1">>,
        E |-> <<"0", "1", "0", "0", "1", "1", "1">>],
       [O |-> <<"0", "0", "1", "1", "0", "0", "1">>,
        E |-> <<"0", "1", "1", "0", "0", "1", "1">>],
       [O |-> <<"0", "0", "1", "0", "0", "1", "1">>,
        E |-> <<"0", "0", "1", "1", "0", "1", "1">>],
       [O |-> <<"0", "1", "1", "1", "1", "0", "1">>,
        E |-> <<"0", "1", "0", "0", "0", "0", "1">>],
       [O |-> <<"0", "1", "0", "0", "0", "1", "1">>,
        E |-> <<"0", "0", "1", "1", "1", "0", "1">>],
       [O |-> <<"0", "1", "1", "0", "0", "0", "1">>,
        E |-> <<"0", "1", "1", "1", "0", "0", "1">>],
       [O |-> <<"0", "1", "0", "1", "1", "1", "1">>,
        E |-> <<"0", "0", "0", "0", "1", "0", "1">>],
       [O |-> <<"0", "1", "1", "1", "0", "1", "1">>,
        E |-> <<"0", "0", "1", "0", "0", "0", "1">>],
       [O |-> <<"0", "1", "1", "0", "1", "1", "1">>,
        E |-> <<"0", "0", "0", "1", "0", "0", "1">>],
       [O |-> <<"0", "0", "0", "1", "0", "1", "1">>,
        E |-> <<"0", "0", "1", "0", "1", "1", "1">>]
    >>

UPC5BITS == UPCEBITS

\* UPC5PARITY[d + 1] is the parity pattern for check digit d
UPC5PARITY ==
    <<
       <<"E", "E", "O", "O", "O">>,
       <<"E", "O", "E", "O", "O">>,
       <<"E", "O", "O", "E", "O">>,
       <<"E", "O", "O", "O", "E">>,
       <<"O", "E", "E", "O", "O">>,
       <<"O", "O", "E", "E", "O">>,
       <<"O", "O", "O", "E", "E">>,
       <<"O", "E", "O", "E", "O">>,
       <<"O", "E", "O", "O", "E">>,
       <<"O", "O", "E", "O", "E">>
    >>

\* the six left-hand parities of EAN13PARITY, before "CCCCCC" is added
EAN13LeftParity ==
    <<
       <<"A", "A", "A", "A", "A", "A">>,
       <<"A", "A", "B", "A", "B", "B">>,
       <<"A", "A", "B", "B", "A", "B">>,
       <<"A", "A", "B", "B", "B", "A">>,
       <<"A", "B", "A", "A", "B", "B">>,
       <<"A", "B", "B", "A", "A", "B">>,
       <<"A", "B", "B", "B", "A", "A">>,
       <<"A", "B", "A", "B", "A", "B">>,
       <<"A", "B", "A", "B", "B", "A">>,
       <<"A", "B", "B", "A", "B", "A">>
    >>

\* EAN13PARITY: map(lambda x: x+"CCCCCC", ...)
EAN13PARITY ==
    [d \in 1..Len(EAN13LeftParity) |->
        EAN13LeftParity[d] \o <<"C", "C", "C", "C", "C", "C">>]

\* UPC.setbits: the codes of the digits, each in the column its parity names
RECURSIVE setbits(_, _, _)
setbits(digits, parityPattern, bitchar) ==
    IF digits = <<>> THEN <<>>
    ELSE bitchar[Head(digits) + 1][Head(parityPattern)]
         \o setbits(Tail(digits), Tail(parityPattern), bitchar)

----------------------------------------------------------------------------
(* UPC, UPCA, EAN13, ISBN13, ISMN13 *)

\* class UPC: the three character maps
UPCfirstCharMap == makeCharMap("*" :> None)

UPClastCharMap == makeCharMap("*" :> None)

UPCotherCharMap == makeCharMap(("*" :> None) @@ ("-" :> Separator))

\* self.weights=[1] + 6*[3,1]
EAN13weights == <<1, 3, 1, 3, 1, 3, 1, 3, 1, 3, 1, 3, 1>>

EAN13magic == 10

EAN13cfg(type) ==
    [type |-> type, isbn10 |-> FALSE,
     firstCharMap |-> UPCfirstCharMap, lastCharMap |-> UPClastCharMap,
     otherCharMap |-> UPCotherCharMap,
     weights |-> EAN13weights, magic |-> EAN13magic]

\* a variant that takes the parity pattern of the check digit
EAN13parityOfCheckDigit(digits) == EAN13PARITY[digits[Len(digits)] + 1]

\* self.parityPattern = EAN13PARITY[self.digits[0]]
EAN13parityPattern(digits) == EAN13PARITY[digits[1] + 1]

leftGuard == <<"L", "0", "L">>

rightGuard == <<"L", "0", "L">>

center == <<"0", "L", "0", "L", "0">>

\* bits is what UPCA.setbits left in self.bits
EAN13Assemble(o, bits) ==
    [o EXCEPT !.bits = leftGuard \o SubSeq(bits, 1, 42) \o center
                       \o SubSeq(bits, 43, Len(bits)) \o rightGuard]

\* the rest of EAN13.__init__, after UPCA.__init__(self,s)
EAN13Encode(o) ==
    IF o.exc # "none" THEN o
    ELSE EAN13Assemble(o, setbits(Tail(o.digits), EAN13parityPattern(o.digits),
                                  EAN13BITS))

\* EAN13.__init__, for the type the subclass has set (EAN13 itself otherwise)
EAN13Init(type, s) == EAN13Encode(ProductCodeInit(EAN13cfg(type), s))

EAN13(s) == EAN13Init("EAN13", s)

\* s[k] in "9*": the raw string's character is one of those
PrefixOk(s, k, allowed) == s[k] \in allowed

\* the prefix test of ISBN13.__init__, on the raw string
ISBN13Prefix(s, o) ==
    IF o.exc # "none" THEN o
    ELSE IF \/ ~ PrefixOk(s, 1, {"9", "*"})
            \/ ~ PrefixOk(s, 2, {"7", "*"})
            \/ ~ PrefixOk(s, 3, {"8", "9", "*"})
    THEN Raise(<<Line("ISBN13", "must begin with 978 or 979", "")>>)
    ELSE o

ISBN13(s) == ISBN13Prefix(s, EAN13Init("ISBN13", s))

\* the prefix test of ISMN13.__init__, on the raw string
ISMN13Prefix(s, o) ==
    IF o.exc # "none" THEN o
    ELSE IF \/ ~ PrefixOk(s, 1, {"9", "*"})
            \/ ~ PrefixOk(s, 2, {"7", "*"})
            \/ ~ PrefixOk(s, 3, {"9", "*"})
    THEN Raise(<<Line("ISMN13", "must begin with 979", "")>>)
    ELSE o

ISMN13(s) == ISMN13Prefix(s, EAN13Init("ISMN13", s))

----------------------------------------------------------------------------
(* UPC5 *)

\* self.weights= [3,9,3,9,3,-1]
UPC5weights == <<3, 9, 3, 9, 3, -1>>

UPC5magic == 10

UPC5cfg ==
    [type |-> "UPC5", isbn10 |-> FALSE,
     firstCharMap |-> makeCharMap(NoDict), lastCharMap |-> makeCharMap("*" :> None),
     otherCharMap |-> makeCharMap(NoDict),
     weights |-> UPC5weights, magic |-> UPC5magic]

delineator == <<"0", "1">>

\* self.s = self.s[:5], and the guard and the delineators put around the codes
UPC5Assemble(o, bits) ==
    [o EXCEPT
       !.s = SubSeq(o.s, 1, 5),
       !.bits = <<"1", "0", "1", "1">>
                \o SubSeq(bits, 1, 7) \o delineator
                \o SubSeq(bits, 8, 14) \o delineator
                \o SubSeq(bits, 15, 21) \o delineator
                \o SubSeq(bits, 22, 28) \o delineator
                \o SubSeq(bits, 29, 35)]

\* the rest of UPC5.__init__, after UPC.__init__(self,s)
UPC5Encode(o) ==
    IF o.exc # "none" THEN o
    ELSE UPC5Assemble(o, setbits(SubSeq(o.digits, 1, 5),
                                 UPC5PARITY[o.checkDigit + 1], UPC5BITS))

\* s = s+"*"; UPC.__init__(self,s)
UPC5(s) == UPC5Encode(ProductCodeInit(UPC5cfg, s \o <<"*">>))

----------------------------------------------------------------------------
(* ISBN10, ISMN *)

\* self.weights=range(10,0,-1)
ISBN10weights == <<10, 9, 8, 7, 6, 5, 4, 3, 2, 1>>

ISBN10magic == 11

ISBN10cfg ==
    [type |-> "ISBN10", isbn10 |-> TRUE,
     firstCharMap |-> makeCharMap("*" :> None),
     lastCharMap |-> makeCharMap(("*" :> None) @@ ("X" :> 10) @@ ("x" :> 10)),
     otherCharMap |-> makeCharMap(("*" :> None) @@ ("-" :> Separator)),
     weights |-> ISBN10weights, magic |-> ISBN10magic]

\* self.s[:-1]
DropLast(s) == SubSeq(s, 1, Len(s) - 1)

\* self.bits = self.as13().bits: an exception of as13 leaves the constructor;
\* a is what self.as13() returned or raised
SetBits(o, a) == IF a.exc # "none" THEN a ELSE [o EXCEPT !.bits = a.bits]

\* a variant with the other Bookland prefix
ISBN10as13Prefix979(selfs) ==
    ISBN13(<<"9", "7", "9", "-">> \o DropLast(selfs) \o <<"*">>)

\* ISBN10.as13: s = "978-%s*" % self.s[:-1]; return ISBN13(s)
ISBN10as13(selfs) == ISBN13(<<"9", "7", "8", "-">> \o DropLast(selfs) \o <<"*">>)

\* the rest of ISBN10.__init__, after ProductCode.__init__(self,s)
ISBN10Encode(o) == IF o.exc # "none" THEN o ELSE SetBits(o, ISBN10as13(o.s))

ISBN10(s) == ISBN10Encode(ProductCodeInit(ISBN10cfg, s))

\* a variant with the two weights in the other order
ISMNweightsSwapped == <<1, 3, 1, 3, 1, 3, 1, 3, 1, 3>>

\* self.weights=5*[3,1]
ISMNweights == <<3, 1, 3, 1, 3, 1, 3, 1, 3, 1>>

ISMNmagic == 10

\* self.otherCharMap = makeCharMap({"*":None,"-":"-"," ":" "})
ISMNotherCharMap ==
    makeCharMap(("*" :> None) @@ ("-" :> Separator) @@ (" " :> Separator))

ISMNcfg ==
    [type |-> "ISMN", isbn10 |-> FALSE,
     firstCharMap |-> ("M" :> 3), lastCharMap |-> makeCharMap("*" :> None),
     otherCharMap |-> ISMNotherCharMap,
     weights |-> ISMNweights, magic |-> ISMNmagic]

\* ISMN.as13: s = "979-0%s*" % self.s[1:-1]; return ISMN13(s)
ISMNas13(selfs) ==
    ISMN13(<<"9", "7", "9", "-", "0">> \o Tail(DropLast(selfs)) \o <<"*">>)

\* the rest of ISMN.__init__, after ProductCode.__init__(self,s)
ISMNEncode(o) == IF o.exc # "none" THEN o ELSE SetBits(o, ISMNas13(o.s))

ISMN(s) == ISMNEncode(ProductCodeInit(ISMNcfg, s))

\* obj.as13(): EAN13 and its subclasses return self, and append nothing;
\* UPC5 has no such method
as13(o) ==
    CASE o.type = "ISBN10" -> ISBN10as13(o.s)
      [] o.type = "ISMN" -> ISMNas13(o.s)
      [] o.type = "UPC5" -> RaiseOther("AttributeError")
      [] OTHER -> [o EXCEPT !.appended = <<>>]

----------------------------------------------------------------------------
(* makeProductCode *)

\* except ProductCodeError: pass
Caught(r) == r.exc = "ProductCodeError"

\* try: return EAN13(s); then raise ProductCodeError()
\* m is what the failed attempts before have appended, e is EAN13(s)
TryEAN13(m, e) ==
    IF Caught(e) THEN After(m \o e.appended, Raise(<<>>)) ELSE After(m, e)

\* try: rval = ISMN(s); return rval (forceISMN13 is false here); d is ISMN(s)
TryISMN(s, m, d) ==
    IF Caught(d) THEN TryEAN13(m \o d.appended, EAN13(s)) ELSE After(m, d)

\* if rval and forceISBN13: try: return rval.as13(); c is rval.as13()
TryAs13(s, m, c) ==
    IF Caught(c) THEN TryISMN(s, m \o c.appended, ISMN(s)) ELSE After(m, c)

\* try: rval = ISBN10(s); b is ISBN10(s)
TryISBN10(s, forceISBN13, m, b) ==
    IF Caught(b) THEN TryISMN(s, m \o b.appended, ISMN(s))
    ELSE IF b.exc # "none" THEN After(m, b)
    ELSE IF forceISBN13 THEN TryAs13(s, m, as13(b))
    ELSE After(m, b)

\* a variant that tries EAN13 before ISBN13
TryEAN13First(s, forceISBN13, a) ==
    IF ~ Caught(EAN13(s)) THEN EAN13(s)
    ELSE IF Caught(a) THEN TryISBN10(s, forceISBN13, a.appended, ISBN10(s))
    ELSE a

\* try: return ISBN13(s); a is ISBN13(s)
TryISBN13(s, forceISBN13, a) ==
    IF Caught(a) THEN TryISBN10(s, forceISBN13, a.appended, ISBN10(s)) ELSE a

makeProductCode(s, forceISBN13, forceISMN13) ==
    IF forceISMN13
    THEN Raise(<<Line("", "there is no ISMN13 yet.", "")>>)
    ELSE TryISBN13(s, forceISBN13, ISBN13(s))

----------------------------------------------------------------------------
(* The strings the functions are called on *)

\* the strings of the module's own test run
tests ==
    {
      \* 0-9669553-0-7
      <<"0", "-", "9", "6", "6", "9", "5", "5", "3", "-", "0", "-", "7">>,
      \* -9669553-0-7
      <<"-", "9", "6", "6", "9", "5", "5", "3", "-", "0", "-", "7">>,
      \* 0-9669553-0-
      <<"0", "-", "9", "6", "6", "9", "5", "5", "3", "-", "0", "-">>,
      \* 096695530-*
      <<"0", "9", "6", "6", "9", "5", "5", "3", "0", "-", "*">>,
      \* 0-9669553-0-8
      <<"0", "-", "9", "6", "6", "9", "5", "5", "3", "-", "0", "-", "8">>,
      \* 0-9669553-0-*
      <<"0", "-", "9", "6", "6", "9", "5", "5", "3", "-", "0", "-", "*">>,
      \* 0-9*69553-0-7
      <<"0", "-", "9", "*", "6", "9", "5", "5", "3", "-", "0", "-", "7">>,
      \* *-9669553-0---7
      <<"*", "-", "9", "6", "6", "9", "5", "5", "3", "-", "0", "-", "-", "-", "7">>,
      \* M-9669553-0-*
      <<"M", "-", "9", "6", "6", "9", "5", "5", "3", "-", "0", "-", "*">>,
      \* 978-0-9669553-0-9
      <<"9", "7", "8", "-", "0", "-", "9", "6", "6", "9", "5", "5", "3", "-", "0", "-", "9">>,
      \* 978-0-9669553-0-*
      <<"9", "7", "8", "-", "0", "-", "9", "6", "6", "9", "5", "5", "3", "-", "0", "-", "*">>,
      \* 978-0-9669553-*-9
      <<"9", "7", "8", "-", "0", "-", "9", "6", "6", "9", "5", "5", "3", "-", "*", "-", "9">>,
      \* 978-0-966955*-0-9
      <<"9", "7", "8", "-", "0", "-", "9", "6", "6", "9", "5", "5", "*", "-", "0", "-", "9">>,
      \* 978-0-96695*3-0-9
      <<"9", "7", "8", "-", "0", "-", "9", "6", "6", "9", "5", "*", "3", "-", "0", "-", "9">>,
      \* 978-0-9669*53-0-9
      <<"9", "7", "8", "-", "0", "-", "9", "6", "6", "9", "*", "5", "3", "-", "0", "-", "9">>,
      \* 978-0-966*553-0-9
      <<"9", "7", "8", "-", "0", "-", "9", "6", "6", "*", "5", "5", "3", "-", "0", "-", "9">>,
      \* 978-0-96*9553-0-9
      <<"9", "7", "8", "-", "0", "-", "9", "6", "*", "9", "5", "5", "3", "-", "0", "-", "9">>,
      \* 978-0-9*69553-0-9
      <<"9", "7", "8", "-", "0", "-", "9", "*", "6", "9", "5", "5", "3", "-", "0", "-", "9">>,
      \* 978-0-*669553-0-9
      <<"9", "7", "8", "-", "0", "-", "*", "6", "6", "9", "5", "5", "3", "-", "0", "-", "9">>,
      \* 978-*-9669553-0-9
      <<"9", "7", "8", "-", "*", "-", "9", "6", "6", "9", "5", "5", "3", "-", "0", "-", "9">>,
      \* 97*-0-9669553-0-9
      <<"9", "7", "*", "-", "0", "-", "9", "6", "6", "9", "5", "5", "3", "-", "0", "-", "9">>,
      \* 9*8-0-9669553-0-9
      <<"9", "*", "8", "-", "0", "-", "9", "6", "6", "9", "5", "5", "3", "-", "0", "-", "9">>,
      \* *78-0-9669553-0-9
      <<"*", "7", "8", "-", "0", "-", "9", "6", "6", "9", "5", "5", "3", "-", "0", "-", "9">>,
      \* 979-0-9669553-0-9
      <<"9", "7", "9", "-", "0", "-", "9", "6", "6", "9", "5", "5", "3", "-", "0", "-", "9">>,
      \* 979-0-9669553-0-*
      <<"9", "7", "9", "-", "0", "-", "9", "6", "6", "9", "5", "5", "3", "-", "0", "-", "*">>,
      \* 979-0-9669553-*-8
      <<"9", "7", "9", "-", "0", "-", "9", "6", "6", "9", "5", "5", "3", "-", "*", "-", "8">>,
      \* 979-0-966955*-0-8
      <<"9", "7", "9", "-", "0", "-", "9", "6", "6", "9", "5", "5", "*", "-", "0", "-", "8">>,
      \* 979-0-96695*3-0-8
      <<"9", "7", "9", "-", "0", "-", "9", "6", "6", "9", "5", "*", "3", "-", "0", "-", "8">>,
      \* 979-0-9669*53-0-8
      <<"9", "7", "9", "-", "0", "-", "9", "6", "6", "9", "*", "5", "3", "-", "0", "-", "8">>,
      \* 979-0-966*553-0-8
      <<"9", "7", "9", "-", "0", "-", "9", "6", "6", "*", "5", "5", "3", "-", "0", "-", "8">>,
      \* 979-0-96*9553-0-8
      <<"9", "7", "9", "-", "0", "-", "9", "6", "*", "9", "5", "5", "3", "-", "0", "-", "8">>,
      \* 979-0-9*69553-0-8
      <<"9", "7", "9", "-", "0", "-", "9", "*", "6", "9", "5", "5", "3", "-", "0", "-", "8">>,
      \* 979-0-*669553-0-8
      <<"9", "7", "9", "-", "0", "-", "*", "6", "6", "9", "5", "5", "3", "-", "0", "-", "8">>,
      \* 979-*-9669553-0-8
      <<"9", "7", "9", "-", "*", "-", "9", "6", "6", "9", "5", "5", "3", "-", "0", "-", "8">>,
      \* 97*-0-9669553-0-8
      <<"9", "7", "*", "-", "0", "-", "9", "6", "6", "9", "5", "5", "3", "-", "0", "-", "8">>,
      \* 9*8-0-9669553-0-8
      <<"9", "*", "8", "-", "0", "-", "9", "6", "6", "9", "5", "5", "3", "-", "0", "-", "8">>,
      \* *78-0-9669553-0-8
      <<"*", "7", "8", "-", "0", "-", "9", "6", "6", "9", "5", "5", "3", "-", "0", "-", "8">>,
      \* *78-0-9669553-0-*
      <<"*", "7", "8", "-", "0", "-", "9", "6", "6", "9", "5", "5", "3", "-", "0", "-", "*">>,
      \* 90000
      <<"9", "0", "0", "0", "0">>,
      \* 9000*
      <<"9", "0", "0", "0", "*">>,
      \* 51595
      <<"5", "1", "5", "9", "5">>
    }

\* further codes: an ISBN-10 whose check digit is X, an ISMN written with spaces,
\* an EAN-13 that is no ISBN
MoreStrings ==
    {
      \* 080442957X
      <<"0", "8", "0", "4", "4", "2", "9", "5", "7", "X">>,
      \* 080442957*
      <<"0", "8", "0", "4", "4", "2", "9", "5", "7", "*">>,
      \* 0-8044-2957-x
      <<"0", "-", "8", "0", "4", "4", "-", "2", "9", "5", "7", "-", "x">>,
      \* M 9669553 0 8
      <<"M", " ", "9", "6", "6", "9", "5", "5", "3", " ", "0", " ", "8">>,
      \* M 9669553 0 *
      <<"M", " ", "9", "6", "6", "9", "5", "5", "3", " ", "0", " ", "*">>,
      \* M-9669553-0-8
      <<"M", "-", "9", "6", "6", "9", "5", "5", "3", "-", "0", "-", "8">>,
      \* 5901234123457
      <<"5", "9", "0", "1", "2", "3", "4", "1", "2", "3", "4", "5", "7">>,
      \* 590123412345*
      <<"5", "9", "0", "1", "2", "3", "4", "1", "2", "3", "4", "5", "*">>,
      \* 979-0-9669553-0-8
      <<"9", "7", "9", "-", "0", "-", "9", "6", "6", "9", "5", "5", "3", "-", "0", "-", "8">>,
      \* 0-306-40615-2
      <<"0", "-", "3", "0", "6", "-", "4", "0", "6", "1", "5", "-", "2">>
    }

\* the strings every one-character edit is taken of
EditBases ==
    {
      \* 0-9669553-0-7
      <<"0", "-", "9", "6", "6", "9", "5", "5", "3", "-", "0", "-", "7">>,
      \* 0-9669553-0-*
      <<"0", "-", "9", "6", "6", "9", "5", "5", "3", "-", "0", "-", "*">>,
      \* 080442957*
      <<"0", "8", "0", "4", "4", "2", "9", "5", "7", "*">>,
      \* M-9669553-0-*
      <<"M", "-", "9", "6", "6", "9", "5", "5", "3", "-", "0", "-", "*">>,
      \* M 9669553 0 *
      <<"M", " ", "9", "6", "6", "9", "5", "5", "3", " ", "0", " ", "*">>,
      \* 978-0-9669553-0-*
      <<"9", "7", "8", "-", "0", "-", "9", "6", "6", "9", "5", "5", "3", "-", "0", "-", "*">>,
      \* 979-0-9669553-0-8
      <<"9", "7", "9", "-", "0", "-", "9", "6", "6", "9", "5", "5", "3", "-", "0", "-", "8">>,
      \* *78-0-9669553-0-*
      <<"*", "7", "8", "-", "0", "-", "9", "6", "6", "9", "5", "5", "3", "-", "0", "-", "*">>,
      \* *-9669553-0---7
      <<"*", "-", "9", "6", "6", "9", "5", "5", "3", "-", "0", "-", "-", "-", "7">>,
      \* 590123412345*
      <<"5", "9", "0", "1", "2", "3", "4", "1", "2", "3", "4", "5", "*">>,
      \* 9000
      <<"9", "0", "0", "0">>
    }

\* the strings of a session of several calls
SessionInputs ==
    {
      \* (the empty string)
      <<>>,
      \* 5
      <<"5">>,
      \* 0-9669553-0-7
      <<"0", "-", "9", "6", "6", "9", "5", "5", "3", "-", "0", "-", "7">>,
      \* 0-9669553-0-8
      <<"0", "-", "9", "6", "6", "9", "5", "5", "3", "-", "0", "-", "8">>,
      \* M 9669553 0 *
      <<"M", " ", "9", "6", "6", "9", "5", "5", "3", " ", "0", " ", "*">>,
      \* 978-0-9669553-0-*
      <<"9", "7", "8", "-", "0", "-", "9", "6", "6", "9", "5", "5", "3", "-", "0", "-", "*">>,
      \* *-9669553-0---7
      <<"*", "-", "9", "6", "6", "9", "5", "5", "3", "-", "0", "-", "-", "-", "7">>,
      \* 90000
      <<"9", "0", "0", "0", "0">>
    }

Chars == DigitChars \cup {"*", "-", " ", "X", "x", "M", "m", "a"}

Substitutions(s) == {[s EXCEPT ![k] = c] : k \in 1..Len(s), c \in Chars}

Insertions(s) ==
    {SubSeq(s, 1, k) \o <<c>> \o SubSeq(s, k + 1, Len(s)) : k \in 0..Len(s), c \in Chars}

Deletions(s) == {SubSeq(s, 1, k - 1) \o SubSeq(s, k + 1, Len(s)) : k \in 1..Len(s)}

\* the longest string of which every string over Chars is an input
MaxShortLen == 2

\* every string of n characters
RECURSIVE StringsOfLen(_)
StringsOfLen(n) ==
    IF n = 0 THEN {<<>>}
    ELSE {Append(s, c) : s \in StringsOfLen(n - 1), c \in Chars}

ShortStrings == UNION {StringsOfLen(n) : n \in 0..MaxShortLen}

Inputs ==
    tests \cup MoreStrings \cup ShortStrings
    \cup UNION {Substitutions(s) \cup Insertions(s) \cup Deletions(s) : s \in EditBases}

\* the calls of a session
MaxCalls == 2

----------------------------------------------------------------------------
(* The calls *)

NotCalled ==
    [exc |-> "notcalled", msg |-> <<>>, type |-> "", s |-> <<>>,
     digits |-> <<>>, checkDigit |-> None, bits |-> <<>>, appended |-> <<>>]

Init ==
    /\ arg = <<>>
    /\ op = "none"
    /\ flags = <<FALSE, FALSE>>
    /\ ret = NotCalled
    /\ conv = NotCalled
    /\ msgs = <<>>
    /\ ncalls = 0

\* the call returns or raises r; what it appended is now in the class's list
Return(name, str, f, r) ==
    /\ arg' = str
    /\ op' = name
    /\ flags' = f
    /\ ret' = r
    /\ conv' = NotCalled
    /\ msgs' = msgs \o r.appended
    /\ ncalls' = ncalls + 1

\* each call draws its string from strs
CallEAN13(strs) ==
    \E str \in strs : Return("EAN13", str, <<FALSE, FALSE>>, EAN13(str))

CallISBN13(strs) ==
    \E str \in strs : Return("ISBN13", str, <<FALSE, FALSE>>, ISBN13(str))

CallISMN13(strs) ==
    \E str \in strs : Return("ISMN13", str, <<FALSE, FALSE>>, ISMN13(str))

CallISBN10(strs) ==
    \E str \in strs : Return("ISBN10", str, <<FALSE, FALSE>>, ISBN10(str))

CallISMN(strs) ==
    \E str \in strs : Return("ISMN", str, <<FALSE, FALSE>>, ISMN(str))

CallUPC5(strs) ==
    \E str \in strs : Return("UPC5", str, <<FALSE, FALSE>>, UPC5(str))

CallMakeProductCode(strs) ==
    \E str \in strs, forceISBN13 \in BOOLEAN, forceISMN13 \in BOOLEAN :
        Return("makeProductCode", str, <<forceISBN13, forceISMN13>>,
               makeProductCode(str, forceISBN13, forceISMN13))

\* ret.as13(), called once on the object the last call returned
CallAs13 ==
    /\ ret.exc = "none"
    /\ conv.exc = "notcalled"
    /\ conv' = as13(ret)
    /\ msgs' = msgs \o conv'.appended
    /\ UNCHANGED <<arg, op, flags, ret, ncalls>>

\* no call has been made in this interpreter yet
Fresh == ncalls = 0

\* one call, on any of Inputs, in a fresh interpreter, and as13 on its result
Next ==
    \/ Fresh /\ CallEAN13(Inputs)
    \/ Fresh /\ CallISBN13(Inputs)
    \/ Fresh /\ CallISMN13(Inputs)
    \/ Fresh /\ CallISBN10(Inputs)
    \/ Fresh /\ CallISMN(Inputs)
    \/ Fresh /\ CallUPC5(Inputs)
    \/ Fresh /\ CallMakeProductCode(Inputs)
    \/ CallAs13

Spec == Init /\ [][Next]_vars

\* the session may go on
More == ncalls < MaxCalls

\* a session of up to MaxCalls calls: ProductCodeError.msgs lives through them all
SessionNext ==
    \/ More /\ CallEAN13(SessionInputs)
    \/ More /\ CallISBN13(SessionInputs)
    \/ More /\ CallISMN13(SessionInputs)
    \/ More /\ CallISBN10(SessionInputs)
    \/ More /\ CallISMN(SessionInputs)
    \/ More /\ CallUPC5(SessionInputs)
    \/ More /\ CallMakeProductCode(SessionInputs)
    \/ CallAs13

SessionSpec == Init /\ [][SessionNext]_vars

----------------------------------------------------------------------------
(* What the claims speak of *)

Constructors == {"EAN13", "ISBN13", "ISMN13", "ISBN10", "ISMN", "UPC5"}

\* the number of '*' in a string
NStars(s) == Cardinality({k \in 1..Len(s) : s[k] = "*"})

\* the weights and the modulus of the format a constructor builds
WeightsOf(name) ==
    CASE name = "ISBN10" -> <<10, 9, 8, 7, 6, 5, 4, 3, 2, 1>>
      [] name = "ISMN" -> <<3, 1, 3, 1, 3, 1, 3, 1, 3, 1>>
      [] name = "UPC5" -> <<3, 9, 3, 9, 3, -1>>
      [] OTHER -> <<1, 3, 1, 3, 1, 3, 1, 3, 1, 3, 1, 3, 1>>

ModulusOf(name) == IF name = "ISBN10" THEN 11 ELSE 10

\* sum(digits[i]*weights[i]) mod modulus == 0
ChecksumZero(name, digits) ==
    /\ Len(digits) = Len(WeightsOf(name))
    /\ WeightedSum(digits, WeightsOf(name), Len(digits)) % ModulusOf(name) = 0

\* the digit slot of the wildcard of a string with one '*': the characters
\* before it that are no separators, and one
WildSlot(s) ==
    LET k == CHOOSE j \in 1..Len(s) : s[j] = "*"
    IN  Cardinality({j \in 1..(k - 1) : s[j] \notin {"-", " "}}) + 1

\* the string a constructor hands to parse, and the configuration it parses with
ParsedString(name, s) == IF name = "UPC5" THEN s \o <<"*">> ELSE s

CfgOf(name) ==
    CASE name = "ISBN10" -> ISBN10cfg
      [] name = "ISMN" -> ISMNcfg
      [] name = "UPC5" -> UPC5cfg
      [] OTHER -> EAN13cfg(name)

ParseOf(name, s) ==
    parse(ParsedString(name, s), CfgOf(name).firstCharMap,
          CfgOf(name).lastCharMap, CfgOf(name).otherCharMap)

\* the fields of an object, without what its construction appended
Same(o1, o2) ==
    /\ o1.exc = o2.exc
    /\ o1.type = o2.type
    /\ o1.s = o2.s
    /\ o1.digits = o2.digits
    /\ o1.checkDigit = o2.checkDigit
    /\ o1.bits = o2.bits

Ok(o) == o.exc = "none"

----------------------------------------------------------------------------
(* C1 *)

\* C1: for every format constructor and every string with at most one '*': if
\* construction succeeds, no digit slot is unresolved, there are as many digits
\* as weights, the weighted sum is 0 modulo the modulus (11 for ISBN10, 10
\* otherwise), and with one wildcard the digit stored in its slot is the one
\* value of 0..9 that satisfies the equation.
C1_ChecksumOfConstructed ==
    (op \in Constructors /\ Ok(ret) /\ NStars(arg) <= 1) =>
        /\ \A p \in 1..Len(ret.digits) : ret.digits[p] # None
        /\ ChecksumZero(op, ret.digits)
        /\ NStars(arg) = 1 =>
             \A v \in 0..9 :
                 ChecksumZero(op, [ret.digits EXCEPT ![WildSlot(arg)] = v])
                     <=> v = ret.digits[WildSlot(arg)]

----------------------------------------------------------------------------
(* C2 *)

\* the result the fixed order ISBN13, ISBN10, ISMN, EAN13 asks for
FirstToSucceed(s, forceISBN13) ==
    IF Ok(ISBN13(s)) THEN ISBN13(s)
    ELSE IF Ok(ISBN10(s))
    THEN (IF forceISBN13 THEN as13(ISBN10(s)) ELSE ISBN10(s))
    ELSE IF Ok(ISMN(s)) THEN ISMN(s)
    ELSE EAN13(s)

\* C2: makeProductCode(s, forceISBN13, forceISMN13=False) returns the result of
\* the first of ISBN13, ISBN10, ISMN, EAN13 whose construction on s succeeds (an
\* ISBN10 as its as13(), an ISBN13, when forceISBN13), and raises an error only
\* when all four fail.
C2_FirstFormatWins ==
    (op = "makeProductCode" /\ ~ flags[2]) =>
        /\ Ok(ret) <=> (Ok(ISBN13(arg)) \/ Ok(ISBN10(arg)) \/ Ok(ISMN(arg)) \/ Ok(EAN13(arg)))
        /\ Ok(ret) => Same(ret, FirstToSucceed(arg, flags[1]))
        /\ (Ok(ret) /\ Ok(ISBN13(arg))) => ret.type = "ISBN13"
        /\ (Ok(ret) /\ ~ Ok(ISBN13(arg)) /\ Ok(ISBN10(arg))) =>
              ret.type = (IF flags[1] THEN "ISBN13" ELSE "ISBN10")

\* makeProductCode returned an ISBN13 for a string that is an EAN13 as well, and
\* another time the ISBN13 of an ISBN-10
C2_Witness ==
    /\ op = "makeProductCode"
    /\ ~ flags[2]
    /\ Ok(ret)
    /\ ret.type = "ISBN13"
    /\ \/ Ok(ISBN13(arg)) /\ Ok(EAN13(arg))
       \/ Ok(ISBN10(arg)) /\ flags[1]

----------------------------------------------------------------------------
(* C3 *)

\* the check digit that makes 12 digits an EAN-13
EAN13CheckDigit(d12) ==
    (10 - (WeightedSum(d12, <<1, 3, 1, 3, 1, 3, 1, 3, 1, 3, 1, 3>>, 12) % 10)) % 10

\* C3: for every ISBN10 that was constructed, as13() succeeds as an ISBN13 whose
\* digits are 9,7,8, the first nine digits of the ISBN-10 in order, and the check
\* digit computed from those twelve alone (weights 1,3,...,1, sum 0 mod 10): the
\* ISBN-10's tenth digit has no part in it.
C3_ISBN10As13 ==
    (ret.type = "ISBN10" /\ Ok(ret) /\ conv.exc # "notcalled") =>
        /\ Ok(conv)
        /\ conv.type = "ISBN13"
        /\ Len(conv.digits) = 13
        /\ SubSeq(conv.digits, 1, 12) = <<9, 7, 8>> \o SubSeq(ret.digits, 1, 9)
        /\ conv.digits[13] = EAN13CheckDigit(<<9, 7, 8>> \o SubSeq(ret.digits, 1, 9))
        /\ WeightedSum(conv.digits, <<1, 3, 1, 3, 1, 3, 1, 3, 1, 3, 1, 3, 1>>, 13) % 10 = 0

\* as13() was called on an ISBN10 whose check digit is X, and gave another one
C3_Witness ==
    /\ ret.type = "ISBN10"
    /\ Ok(ret)
    /\ Ok(conv)
    /\ ret.digits[10] = 10
    /\ conv.digits[13] # ret.digits[10]

----------------------------------------------------------------------------
(* C4 *)

TooManyWildcards(name) == <<Line(name, "too many wildcard digits.", "")>>

\* C4 as claimed: for every format constructor and every string with two or more
\* '*', construction fails with the too-many-wildcards error, whatever else is
\* wrong with the string (illegal characters, number of digits, doubled
\* separators, prefix).
C4_AlwaysTooManyWildcards ==
    (op \in Constructors /\ NStars(arg) >= 2) =>
        /\ ret.exc = "ProductCodeError"
        /\ ret.msg = TooManyWildcards(op)

\* C4, amended: for every format constructor and every string with two or more
\* '*', construction fails: with the too-many-wildcards error when every
\* character is legal where it stands, whatever the number of digits, the
\* separators and the prefix; and with the parse error that cites the first
\* illegal character when there is one (for UPC5 every '*' is one).
C4_TooManyWildcardsIfLegal ==
    (op \in Constructors /\ NStars(arg) >= 2) =>
        /\ ret.exc = "ProductCodeError"
        /\ ParseOf(op, arg).exc = "none" => ret.msg = TooManyWildcards(op)
        /\ ParseOf(op, arg).exc = "KeyError" =>
              ret.msg = <<Line(op, "invalid here", ParseOf(op, arg).key)>>

\* two wildcards in a string of legal characters with a doubled separator and
\* a number of digit slots other than that of the weights
C4_Witness ==
    /\ op \in Constructors
    /\ NStars(arg) >= 2
    /\ ParseOf(op, arg).exc = "none"
    /\ RepeatedSeparator(arg)
    /\ Len(ParseOf(op, arg).digits) # Len(WeightsOf(op))
    /\ ret.msg = TooManyWildcards(op)

----------------------------------------------------------------------------
(* C5 *)

\* the string with each space replaced by a dash
Dashed(s) == [k \in 1..Len(s) |-> IF s[k] = " " THEN "-" ELSE s[k]]

\* an ISMN written with single spaces for separators, which is an ISMN when
\* written with dashes
SpacedISMN(s) ==
    /\ Len(s) >= 1
    /\ s[1] = "M"
    /\ \E k \in 1..Len(s) : s[k] = " "
    /\ \A k \in 1..Len(s) : s[k] # "-"
    /\ ~ RepeatedSeparator(s)
    /\ NStars(s) <= 1
    /\ Ok(ISMN(Dashed(s)))

\* C5: a space is a legal interior separator of an ISMN: ISMN(s) succeeds on
\* such a string written with single spaces, with the digits and the check
\* digit of the string written with dashes.
C5_SpacesSeparateISMN ==
    (op = "ISMN" /\ SpacedISMN(arg)) =>
        /\ Ok(ret)
        /\ ret.digits = ISMN(Dashed(arg)).digits
        /\ ret.checkDigit = ISMN(Dashed(arg)).checkDigit

----------------------------------------------------------------------------
(* C6 *)

\* what str() gives for an error: "\n".join(self.msgs), the class's list
ErrorText == msgs

\* C6: the messages of failed attempts are never accumulated: the text of a
\* raised error consists of the message of the construction that raised it
\* alone, and the error makeProductCode raises when every format fails carries
\* no message of the failed attempts of this call or an earlier one.
C6_ErrorOwnsItsMessages ==
    ret.exc = "ProductCodeError" =>
        ErrorText = (IF ret.msg = <<>> THEN <<>> ELSE <<ret.msg>>)

----------------------------------------------------------------------------
(* C7 *)

\* C7: for every string, the empty one and those of one character too,
\* makeProductCode(s) with its default flags returns a code or raises
\* ProductCodeError; no other failure escapes.
C7_OnlyProductCodeError ==
    (op = "makeProductCode" /\ flags = <<TRUE, FALSE>>) =>
        ret.exc \in {"none", "ProductCodeError"}

----------------------------------------------------------------------------
(* C8 *)

\* the 7-symbol code of digit d in column col
Code(d, col) == EAN13BITS[d + 1][col]

\* the k-th of the 95 symbols the claim describes, for 13 digits
Symbol(digits, k) ==
    IF k <= 3 THEN <<"L", "0", "L">>[k]
    ELSE IF k <= 45
    THEN Code(digits[((k - 4) \div 7) + 2],
              EAN13PARITY[digits[1] + 1][((k - 4) \div 7) + 1])[((k - 4) % 7) + 1]
    ELSE IF k <= 50 THEN <<"0", "L", "0", "L", "0">>[k - 45]
    ELSE IF k <= 92
    THEN Code(digits[((k - 51) \div 7) + 8], "C")[((k - 51) % 7) + 1]
    ELSE <<"L", "0", "L">>[k - 92]

EAN13Pattern(o) ==
    /\ Len(o.bits) = 95
    /\ \A k \in 1..95 : o.bits[k] = Symbol(o.digits, k)
    /\ \A k \in 1..95 : o.bits[k] \in {"0", "1", "L"}
    /\ \A k \in 1..95 : o.bits[k] = "L" => k \in {1, 3, 47, 49, 93, 95}

IsEAN13(o) == Ok(o) /\ o.type \in {"EAN13", "ISBN13", "ISMN13"}

\* C8: the bit pattern of every constructed EAN13, ISBN13 or ISMN13 is 95
\* symbols: L0L, the codes of digits[1..6] in the columns the first six letters
\* of EAN13PARITY[digits[0]] name, 0L0L0, the codes of digits[7..12] in column
\* C, L0L; the leading digit selects the parity and is not encoded itself, and
\* L stands in the guards and the center only.
C8_EAN13BitPattern ==
    /\ IsEAN13(ret) => EAN13Pattern(ret)
    /\ IsEAN13(conv) => EAN13Pattern(conv)

\* a constructed code whose leading digit and check digit select different
\* parities, with a B column among them
C8_Witness ==
    /\ IsEAN13(ret)
    /\ ret.digits[1] # ret.digits[13]
    /\ ret.digits[1] # 0
    /\ Len(ret.bits) = 95

----------------------------------------------------------------------------
(* C9 *)

\* the string parses and its digit slots are not as many as the weights
WrongCount(name, s) ==
    /\ ParseOf(name, s).exc = "none"
    /\ Len(ParseOf(name, s).digits) # Len(WeightsOf(name))

\* C9 as claimed: a string that parses but violates more than one structural
\* condition at once (a digit-slot count other than the weight count, and a
\* doubled separator) fails with one error that carries a message for each.
C9_OneMessagePerViolation ==
    (op \in Constructors /\ WrongCount(op, arg)
        /\ RepeatedSeparator(Upper(ParsedString(op, arg)))) =>
        /\ ret.exc = "ProductCodeError"
        /\ \E k \in 1..Len(ret.msg) : ret.msg[k].text = "Repeated seperator"
        /\ \E k \in 1..Len(ret.msg) :
              ret.msg[k].text \in {"Too many digits", "Not enough digits",
                                   "wrong number of digits"}

\* C9, amended: the digit count is checked fail-fast, before realityCheck: a
\* string that parses with a digit-slot count other than the weight count fails
\* with an error of one message, "wrong number of digits" ("too many wildcard
\* digits." with two or more wildcards), doubled separator or not; and a
\* constructor never raises an error whose message has more than one line.
C9_CountFailsFast ==
    /\ (op \in Constructors /\ WrongCount(op, arg)) =>
          /\ ret.exc = "ProductCodeError"
          /\ ret.msg = (IF CountNone(ParseOf(op, arg).digits) >= 2
                        THEN TooManyWildcards(op)
                        ELSE <<Line(op, "wrong number of digits", "")>>)
    /\ (op \in Constructors /\ ret.exc = "ProductCodeError") => Len(ret.msg) = 1

\* a string with a wrong number of digit slots and a doubled separator failed
\* with the digit-count message
C9_Witness ==
    /\ op \in Constructors
    /\ WrongCount(op, arg)
    /\ RepeatedSeparator(Upper(arg))
    /\ ret.msg = <<Line(op, "wrong number of digits", "")>>

----------------------------------------------------------------------------
(* C10 *)

\* C10: for every ISMN that was constructed, as13() has the digits 9,7,9,0, the
\* ISMN's digits 1..8 (those after the M) and a check digit, and that check
\* digit is the ISMN's own.
C10_ISMNAs13KeepsCheckDigit ==
    (ret.type = "ISMN" /\ Ok(ret) /\ conv.exc # "notcalled") =>
        /\ Ok(conv)
        /\ conv.type = "ISMN13"
        /\ conv.digits = <<9, 7, 9, 0>> \o SubSeq(ret.digits, 2, 9)
                         \o <<ret.digits[10]>>
        /\ conv.checkDigit = ret.checkDigit

\* as13() was called on an ISMN whose check digit was a wildcard
C10_Witness ==
    /\ ret.type = "ISMN"
    /\ Ok(ret)
    /\ Ok(conv)
    /\ arg[Len(arg)] = "*"
    /\ conv.checkDigit = ret.checkDigit

====
